---- MODULE Spec2Model ----
(***************************************************************************)
(* BiasShield backend (src/backend/app.py): the template-based             *)
(* ExplanationGenerator and the three HTTP handlers that expose it.        *)
(*                                                                         *)
(* Numbers.  Rates, disparities, probabilities and impacts are floats in   *)
(* the source; here every such number is a fixed-point integer counting    *)
(* thousandths (0.13 is 130, 13.0 is 13000, the threshold 10 is 10000).    *)
(* "x * 100" multiplies the integer by 100 and "%.1f" keeps one decimal.   *)
(*                                                                         *)
(* Text.  A document is the sequence of its lines (the source builds one   *)
(* string whose lines end in "\n").                                        *)
(***************************************************************************)
EXTENDS Integers, Sequences, FiniteSets, TLC

VARIABLES request, response, frame

vars == <<request, response, frame>>

----------------------------------------------------------------------------
(* Bounds of the model *)

\* disparities are drawn from DispStep * (-MaxDisp .. MaxDisp) thousandths
MaxDisp == 5
DispStep == 25
\* approval_rates mappings of up to MaxGroups groups
MaxGroups == 2
\* explanation mappings of up to MaxFactors factors
MaxFactors == 4
\* two requests side by side: disparities from PairStep * (0 .. PairMaxDisp)
PairMaxDisp == 1
PairStep == 60

----------------------------------------------------------------------------
(* Number formatting *)

\* the fixed-point scale of every float of the source
Scale == 1000

Abs(x) == IF x < 0 THEN -x ELSE x

\* format(v, ".1f"): one decimal, rounded to the nearest tenth
Fmt1(v) ==
    LET tenths == (Abs(v) + Scale \div 20) \div (Scale \div 10)
    IN  (IF v < 0 /\ tenths > 0 THEN "-" ELSE "")
            \o ToString(tenths \div 10) \o "." \o ToString(tenths % 10)

----------------------------------------------------------------------------
(* Data model: BiasMetrics / FairnessResponse *)

\* the four fields of FairnessResponse, in declaration order
AttributeKeys == <<"gender", "race", "age_group", "disability_status">>

AttributeKeySet == {AttributeKeys[i] : i \in 1..Len(AttributeKeys)}

\* An approval_rates mapping is the sequence of its items in iteration
\* order, each [group, rate, numeric]; numeric = FALSE is a value that is
\* not a number in the request body.
\* A request body that pydantic accepts as a FairnessResponse: the four
\* attributes are present and every rate is a number.
ValidFairness(body) ==
    /\ DOMAIN body = AttributeKeySet
    /\ \A a \in DOMAIN body :
          \A i \in 1..Len(body[a].approval_rates) : body[a].approval_rates[i].numeric

----------------------------------------------------------------------------
(* The disparity ranking shared by the bias report and the remediation     *)
(* strategy                                                                *)

\* sorted(s, key=..., reverse=True), key[i] being the key of s[i]:
\* descending, and equal keys keep their original order (Python's sort is
\* stable, also under reverse=True)
SortedDesc(s, key) ==
    LET before(j, i) == \/ key[j] > key[i]
                        \/ key[j] = key[i] /\ j < i
        pos(i) == 1 + Cardinality({j \in 1..Len(s) : before(j, i)})
    IN  [p \in 1..Len(s) |-> s[CHOOSE i \in 1..Len(s) : pos(i) = p]]

\* the list "disparities" (name, approval_disparity * 100)
Disparities(fd) ==
    << <<"Gender", fd.gender.approval_disparity * 100>>,
       <<"Race", fd.race.approval_disparity * 100>>,
       <<"Age Group", fd.age_group.approval_disparity * 100>>,
       <<"Disability Status", fd.disability_status.approval_disparity * 100>> >>

AbsDisparity(d) == Abs(d[2])

\* mutant: sorted ascending and then reversed, which reverses the ties
SortedDisparities_TiesReversed(fd) ==
    LET s == Disparities(fd)
        before(j, i) == \/ AbsDisparity(s[j]) > AbsDisparity(s[i])
                        \/ AbsDisparity(s[j]) = AbsDisparity(s[i]) /\ j > i
        pos(i) == 1 + Cardinality({j \in 1..Len(s) : before(j, i)})
    IN  [p \in 1..Len(s) |-> s[CHOOSE i \in 1..Len(s) : pos(i) = p]]

SortedDisparities(fd) ==
    LET disparities == Disparities(fd)
    IN  SortedDesc(disparities, [i \in 1..Len(disparities) |-> AbsDisparity(disparities[i])])

\* max(abs(d[1]) for d in disparities)
MaxAbsDisparity(fd) ==
    LET ds == Disparities(fd)
    IN  CHOOSE m \in {AbsDisparity(ds[i]) : i \in 1..Len(ds)} :
            \A i \in 1..Len(ds) : AbsDisparity(ds[i]) <= m

HighThreshold == 10
ModerateThreshold == 5
RegulatoryThreshold == 5

----------------------------------------------------------------------------
(* ExplanationGenerator.generate_bias_explanation                          *)

\* What a generator call ends in: raised = FALSE and the returned message,
\* or raised = TRUE, str(e) of the exception, and the text the local
\* variable "message" held when the exception left the function.
Returned(message) == [raised |-> FALSE, error |-> "", message |-> message]

Raised(error, message) == [raised |-> TRUE, error |-> error, message |-> message]

\* reading fairness_data.gender, .race, .age_group, .disability_status
HasAttributes(fd) == AttributeKeySet \subseteq DOMAIN fd

\* the approval_rates each branch of the loop reads
RatesOf(fd, attribute) ==
    CASE attribute = "Gender" -> fd.gender.approval_rates
      [] attribute = "Race" -> fd.race.approval_rates
      [] attribute = "Age Group" -> fd.age_group.approval_rates
      [] attribute = "Disability Status" -> fd.disability_status.approval_rates

\* mutant: of several items of the largest rate, the last one is reported
Highest_LastOfTies(rates) ==
    rates[CHOOSE i \in 1..Len(rates) :
            /\ \A j \in 1..Len(rates) : rates[j].rate <= rates[i].rate
            /\ \A j \in (i + 1)..Len(rates) : rates[j].rate < rates[i].rate]

\* max(rates.items(), key=lambda x: x[1]): the first item of the largest rate
Highest(rates) ==
    rates[CHOOSE i \in 1..Len(rates) :
            /\ \A j \in 1..Len(rates) : rates[j].rate <= rates[i].rate
            /\ \A j \in 1..(i - 1) : rates[j].rate < rates[i].rate]

\* min(rates.items(), key=lambda x: x[1]): the first item of the smallest rate
Lowest(rates) ==
    rates[CHOOSE i \in 1..Len(rates) :
            /\ \A j \in 1..Len(rates) : rates[j].rate >= rates[i].rate
            /\ \A j \in 1..(i - 1) : rates[j].rate > rates[i].rate]

AllNumeric(rates) == \A i \in 1..Len(rates) : rates[i].numeric

HighAlertLine ==
    "**High Bias Alert**: Significant disparities detected in approval rates across protected attributes."

ModerateAlertLine ==
    "**Moderate Bias Alert**: Some disparities detected in approval rates across protected attributes."

LowAlertLine ==
    "**Low Bias Alert**: Minimal disparities detected in approval rates across protected attributes."

HighConclusionLine ==
    "The model shows significant bias that requires immediate attention. Implementing bias mitigation techniques is strongly recommended before deploying this model in production."

ModerateConclusionLine ==
    "The model shows moderate bias that should be addressed. Consider implementing bias mitigation techniques to improve fairness before full deployment."

LowConclusionLine ==
    "The model shows acceptable levels of bias, but continuous monitoring is recommended to ensure fairness is maintained over time."

RegulatoryLine ==
    "- **Regulatory concern**: This disparity exceeds the typical 5% threshold for regulatory scrutiny."

HeadingLine(attribute) == "**" \o attribute \o "**:"

DisparityLine(disparity) == "- Approval rate disparity: " \o Fmt1(disparity) \o "%"

HighestLine(item) ==
    "- Highest approval rate: " \o item.group \o " (" \o Fmt1(item.rate * 100) \o "%)"

LowestLine(item) ==
    "- Lowest approval rate: " \o item.group \o " (" \o Fmt1(item.rate * 100) \o "%)"

\* mutant: ">=" for ">" in the overall assessment
SummaryAlert_Inclusive(fd) ==
    IF MaxAbsDisparity(fd) >= HighThreshold * Scale THEN HighAlertLine
    ELSE IF MaxAbsDisparity(fd) >= ModerateThreshold * Scale THEN ModerateAlertLine
    ELSE LowAlertLine

\* the "Overall assessment" if / elif / else
SummaryAlert(fd) ==
    IF MaxAbsDisparity(fd) > HighThreshold * Scale THEN HighAlertLine
    ELSE IF MaxAbsDisparity(fd) > ModerateThreshold * Scale THEN ModerateAlertLine
    ELSE LowAlertLine

\* mutant: ">=" for ">" in the conclusion
Conclusion_Inclusive(fd) ==
    IF MaxAbsDisparity(fd) >= HighThreshold * Scale THEN HighConclusionLine
    ELSE IF MaxAbsDisparity(fd) >= ModerateThreshold * Scale THEN ModerateConclusionLine
    ELSE LowConclusionLine

\* the "Conclusion" if / elif / else
Conclusion(fd) ==
    IF MaxAbsDisparity(fd) > HighThreshold * Scale THEN HighConclusionLine
    ELSE IF MaxAbsDisparity(fd) > ModerateThreshold * Scale THEN ModerateConclusionLine
    ELSE LowConclusionLine

\* mutant: ">=" for ">" in the regulatory test
RegulatoryConcern_Inclusive(disparity) == Abs(disparity) >= RegulatoryThreshold * Scale

\* "if abs(disparity) > 5" of each branch
RegulatoryConcern(disparity) == Abs(disparity) > RegulatoryThreshold * Scale

\* the body of one iteration of the loop, after the heading
Subsection(rates, disparity) ==
    << DisparityLine(disparity), HighestLine(Highest(rates)), LowestLine(Lowest(rates)) >>
        \o (IF RegulatoryConcern(disparity) THEN <<RegulatoryLine>> ELSE <<>>)
        \o <<"">>

\* the loop "for attribute, disparity in sorted_disparities"
RECURSIVE DetailedAnalysis(_, _, _)
DetailedAnalysis(fd, sorted, message) ==
    IF sorted = <<>> THEN Returned(message)
    ELSE LET attribute == Head(sorted)[1]
             disparity == Head(sorted)[2]
             rates == RatesOf(fd, attribute)
             started == Append(message, HeadingLine(attribute))
         IN  IF rates = <<>>
                THEN Raised("max() arg is an empty sequence", started)
             ELSE IF ~AllNumeric(rates)
                THEN Raised("'>' not supported between instances of 'str' and 'float'", started)
             ELSE DetailedAnalysis(fd, Tail(sorted), started \o Subsection(rates, disparity))

generate_bias_explanation(fd) ==
    IF ~HasAttributes(fd)
        THEN Raised("'FairnessResponse' object has no attribute", <<>>)
    ELSE LET top == << "## Bias Analysis Report", "",
                       "### Summary of Findings", "",
                       SummaryAlert(fd), "",
                       "### Detailed Analysis", "" >>
             detail == DetailedAnalysis(fd, SortedDisparities(fd), top)
         IN  IF detail.raised THEN detail
             ELSE Returned(detail.message \o << "### Conclusion", "", Conclusion(fd) >>)

----------------------------------------------------------------------------
(* ExplanationGenerator.generate_remediation_strategy                      *)

\* mutant: the ranking forgets abs(), so a negative disparity never ranks first
MostBiased_Signed(fd) ==
    LET disparities == Disparities(fd)
    IN  SortedDesc(disparities, [i \in 1..Len(disparities) |-> disparities[i][2]])[1][1]

\* mutant: the ranking is read from the wrong end
MostBiased_Last(fd) == SortedDisparities(fd)[Len(SortedDisparities(fd))][1]

\* sorted_disparities[0][0]
MostBiased(fd) == SortedDisparities(fd)[1][1]

FocusLine(most_biased) ==
    "   - Focus particularly on " \o most_biased \o " fairness, which shows the highest disparity"

generate_remediation_strategy(fd) ==
    IF ~HasAttributes(fd)
        THEN Raised("'FairnessResponse' object has no attribute", <<>>)
    ELSE Returned(
        << "## Bias Remediation Strategy", "",
           "### Technical Strategies", "",
           "1. **Fairness Constraints**:",
           "   - Implement Demographic Parity constraints during model training",
           "   - Apply Equalized Odds constraints to balance error rates across groups",
           FocusLine(MostBiased(fd)), "",
           "2. **Data Rebalancing**:",
           "   - Apply instance weighting to compensate for underrepresented groups",
           "   - Use reweighing techniques from the AIF360 toolkit",
           "   - Consider synthetic data generation for minority groups", "",
           "3. **Model Adjustments**:",
           "   - Optimize classification thresholds separately for each demographic group",
           "   - Implement adversarial debiasing techniques",
           "   - Consider ensemble methods that combine multiple fair classifiers", "",
           "### Feature Engineering Approaches", "",
           "1. **Feature Selection**:",
           "   - Remove or reduce weight of features highly correlated with protected attributes",
           "   - Identify and eliminate proxy variables that may encode bias", "",
           "2. **Feature Transformation**:",
           "   - Apply fairness-aware feature transformations",
           "   - Develop composite features that are less correlated with protected attributes", "",
           "### Policy Recommendations", "",
           "1. **Process Changes**:",
           "   - Implement a second-level review for rejected applications from protected groups",
           "   - Establish clear documentation requirements for all lending decisions", "",
           "2. **Monitoring Framework**:",
           "   - Set up continuous monitoring of approval rates across demographic groups",
           "   - Establish disparity thresholds that trigger automatic reviews",
           "   - Conduct regular fairness audits with detailed reporting", "",
           "### Implementation Considerations", "",
           "1. **Performance Tradeoffs**:",
           "   - Be aware that some fairness constraints may slightly reduce overall model accuracy",
           "   - Establish acceptable thresholds for both fairness and performance", "",
           "2. **Regulatory Compliance**:",
           "   - Document all bias mitigation efforts for regulatory review",
           "   - Ensure compliance with ECOA, FHA, and FCRA requirements",
           "   - Prepare explanations for any remaining disparities", "",
           "3. **Validation Approach**:",
           "   - Test remediation strategies on historical data before implementation",
           "   - Use A/B testing to validate improvements in fairness metrics",
           "   - Establish a feedback loop for continuous improvement", "" >>)

----------------------------------------------------------------------------
(* ExplanationGenerator.generate_loan_explanation                          *)

\* A factor name is the sequence of its characters, so that replace() and
\* title() are computed character by character.
LowerCase == << "a", "b", "c", "d", "e", "f", "g", "h", "i", "j", "k", "l", "m",
                "n", "o", "p", "q", "r", "s", "t", "u", "v", "w", "x", "y", "z" >>

UpperCase == << "A", "B", "C", "D", "E", "F", "G", "H", "I", "J", "K", "L", "M",
                "N", "O", "P", "Q", "R", "S", "T", "U", "V", "W", "X", "Y", "Z" >>

IsLetter(ch) == \E i \in 1..Len(LowerCase) : ch = LowerCase[i] \/ ch = UpperCase[i]

Upper(ch) ==
    IF \E i \in 1..Len(LowerCase) : ch = LowerCase[i]
        THEN UpperCase[CHOOSE i \in 1..Len(LowerCase) : ch = LowerCase[i]]
        ELSE ch

Lower(ch) ==
    IF \E i \in 1..Len(UpperCase) : ch = UpperCase[i]
        THEN LowerCase[CHOOSE i \in 1..Len(UpperCase) : ch = UpperCase[i]]
        ELSE ch

\* factor.replace('_', ' ')
ReplaceUnderscore(chars) ==
    [i \in 1..Len(chars) |-> IF chars[i] = "_" THEN " " ELSE chars[i]]

\* str.title(): a letter that follows a non-letter is upper-cased, any other
\* letter lower-cased
Title(chars) ==
    [i \in 1..Len(chars) |->
        IF i = 1 \/ ~IsLetter(chars[i - 1]) THEN Upper(chars[i]) ELSE Lower(chars[i])]

RECURSIVE Join(_)
Join(chars) == IF chars = <<>> THEN "" ELSE Head(chars) \o Join(Tail(chars))

\* factor.replace('_', ' ').title()
FactorName(factor) == Join(Title(ReplaceUnderscore(factor)))

Pad3(n) ==
    (IF n < 10 THEN "00" ELSE IF n < 100 THEN "0" ELSE "") \o ToString(n)

RECURSIVE Thousands(_)
Thousands(n) ==
    IF n < 1000 THEN ToString(n)
    ELSE Thousands(n \div 1000) \o "," \o Pad3(n % 1000)

\* format(v, ",.2f"): two decimals, thousands separated by commas
FmtMoney(v) ==
    LET cents == (Abs(v) + Scale \div 200) \div (Scale \div 100)
        frac == cents % 100
    IN  (IF v < 0 /\ cents > 0 THEN "-" ELSE "")
            \o Thousands(cents \div 100) \o "."
            \o (IF frac < 10 THEN "0" ELSE "") \o ToString(frac)

\* sorted(explanation_factors.items(), key=lambda x: x[1], reverse=True)
Impact(item) == item.impact

SortedFactors(explanation) ==
    SortedDesc(explanation, [i \in 1..Len(explanation) |-> Impact(explanation[i])])

TopN == 3

\* mutant: the slice is taken of the mapping's items, not of the sorted list
TopFactors_Unsorted(explanation) ==
    SubSeq(explanation, 1, IF Len(explanation) < TopN THEN Len(explanation) ELSE TopN)

\* sorted_factors[:3]
TopFactors(explanation) ==
    LET sorted_factors == SortedFactors(explanation)
    IN  SubSeq(sorted_factors, 1, IF Len(sorted_factors) < TopN THEN Len(sorted_factors) ELSE TopN)

ApprovedBullet(item) ==
    "- " \o FactorName(item.factor) \o ": This factor had a "
         \o Fmt1(item.impact * 100) \o "% impact on your approval"

DeniedBullet(item) ==
    "- " \o FactorName(item.factor) \o ": This factor had a "
         \o Fmt1(item.impact * 100) \o "% impact on the decision"

ApprovedOpening(probability) ==
    "We are pleased to inform you that your loan application has been approved with an approval probability of "
        \o Fmt1(probability) \o "%. Our BiasShield system has carefully evaluated your application, taking into account various factors that contribute to your creditworthiness."

DeniedOpening(probability) ==
    "We regret to inform you that your loan application has not been approved at this time. Our BiasShield system has carefully evaluated your application and determined that it does not meet our current lending criteria. The decision was made with an approval probability of "
        \o Fmt1(probability) \o "%."

StabilityLine(application) ==
    "Your credit score of "
        \o (IF "credit_score" \in DOMAIN application
                THEN ToString(application.credit_score) ELSE "None")
        \o " and income of $"
        \o FmtMoney(application.income)
        \o " demonstrate financial stability, which are important indicators of your ability to repay the loan."

MaintenanceRecommendations ==
    << "1. Maintain your current credit score by making timely payments",
       "2. Consider setting up automatic payments to avoid any missed deadlines",
       "3. Review your loan terms carefully before proceeding" >>

ImprovementRecommendations ==
    << "1. Work on improving your credit score through timely bill payments",
       "2. Reduce existing debt before applying for new credit",
       "3. Consider applying for a smaller loan amount relative to your income",
       "4. Wait 3-6 months before reapplying to allow time for credit improvements" >>

ThankYouLine ==
    "Thank you for choosing our services. If you have any questions about your approval or the next steps, please don't hesitate to contact our customer service team."

InvitationLine ==
    "We encourage you to review your credit report for any inaccuracies and address any issues that may be affecting your creditworthiness. If you believe this decision was made in error or would like more information, you can request a detailed explanation of the decision."

SignatureLine == "BiasShield Decision System"

\* mutant: the branch is chosen by the probability, not by the flag
IsApproved_ByProbability(prediction) == prediction.approval_probability * 100 > 50 * Scale

\* the "if approved:" of generate_loan_explanation
IsApproved(prediction) == prediction.approved

generate_loan_explanation(application, prediction) ==
    LET probability == prediction.approval_probability * 100
        top_factors == TopFactors(prediction.explanation)
    IN  IF IsApproved(prediction)
        THEN LET message ==
                    << "", ApprovedOpening(probability), "",
                       "The key factors that positively influenced this decision include:" >>
                    \o [i \in 1..Len(top_factors) |-> ApprovedBullet(top_factors[i])]
             IN  \* format(None, ",.2f") raises when the application has no income
                 IF "income" \notin DOMAIN application
                    THEN Raised("unsupported format string passed to NoneType.__format__", message)
                 ELSE Returned(message
                        \o << "", StabilityLine(application), "", "Recommendations:" >>
                        \o MaintenanceRecommendations
                        \o << "", ThankYouLine, "", SignatureLine >>)
        ELSE Returned(
                << "", DeniedOpening(probability), "",
                   "The key factors that influenced this decision include:" >>
                \o [i \in 1..Len(top_factors) |-> DeniedBullet(top_factors[i])]
                \o << "", "Recommendations to improve your future applications:" >>
                \o ImprovementRecommendations
                \o << "", InvitationLine, "", SignatureLine >>)

----------------------------------------------------------------------------
(* The HTTP handlers                                                       *)

NoResponse == [status |-> 0, has_explanation |-> FALSE, explanation |-> <<>>, detail |-> ""]

\* return {"explanation": explanation}
Ok(explanation) ==
    [status |-> 200, has_explanation |-> TRUE, explanation |-> explanation, detail |-> ""]

\* raise HTTPException(status_code=..., detail=...)
HTTPError(status_code, detail) ==
    [status |-> status_code, has_explanation |-> FALSE, explanation |-> <<>>, detail |-> detail]

\* mutant: the text ends with the number of requests the process has
\* answered so far, a value that is not among the arguments
TryReturn_Stamped(result) ==
    IF result.raised THEN HTTPError(500, result.error)
    ELSE Ok(Append(result.message,
            "Request " \o ToString(Cardinality({c \in DOMAIN response : response[c].status # 0}))))

\* mutant: the handler answers with whatever text was built when the
\* exception was raised
TryReturn_Partial(result) == Ok(result.message)

\* try: ... return {"explanation": explanation}
\* except Exception as e: raise HTTPException(status_code=500, detail=str(e))
TryReturn(result) ==
    IF result.raised THEN HTTPError(500, result.error) ELSE Ok(result.message)

\* The fields of LoanApplication the generator reads; the eleven others are
\* required too but never read.
ValidApplication(application) == DOMAIN application = {"credit_score", "income"}

explain_loan(application, prediction) ==
    TryReturn(generate_loan_explanation(application, prediction))

explain_bias(fairness_data) == TryReturn(generate_bias_explanation(fairness_data))

remediation_strategy(fairness_data) ==
    TryReturn(generate_remediation_strategy(fairness_data))

\* FastAPI validates the body against the handler's parameter types before
\* it calls the handler, and answers 422 when that fails.
ValidationError == HTTPError(422, "value is not a valid")

Pending(c, op) == request[c].op = op /\ response[c] = NoResponse

ExplainLoan(c) ==
    /\ Pending(c, "explain_loan")
    /\ response' = [response EXCEPT ![c] =
            IF ValidApplication(request[c].application)
                THEN explain_loan(request[c].application, request[c].prediction)
                ELSE ValidationError]
    /\ UNCHANGED <<request, frame>>

ExplainBias(c) ==
    /\ Pending(c, "explain_bias")
    /\ response' = [response EXCEPT ![c] =
            IF ValidFairness(request[c].fairness_data)
                THEN explain_bias(request[c].fairness_data)
                ELSE ValidationError]
    /\ UNCHANGED <<request, frame>>

RemediationStrategy(c) ==
    /\ Pending(c, "remediation_strategy")
    /\ response' = [response EXCEPT ![c] =
            IF ValidFairness(request[c].fairness_data)
                THEN remediation_strategy(request[c].fairness_data)
                ELSE ValidationError]
    /\ UNCHANGED <<request, frame>>

----------------------------------------------------------------------------
(* One handler invocation, in two steps                                    *)

\* The locals of one handler invocation: where it stands, and what the
\* statement `explanation = ExplanationGenerator.generate_...(...)` left
\* (the returned text, or the exception that left the try block).
NoFrame == [pc |-> "idle", result |-> Returned(<<>>)]

\* mutant: the handlers keep `explanation` in one module-level variable
FrameOf_Shared(c) == "c1"

\* `explanation` is a local of the call: each invocation has its own
FrameOf(c) == c

Idle(c, op) ==
    /\ Pending(c, op)
    /\ frame[c].pc = "idle"

InFlight(c, op) ==
    /\ Pending(c, op)
    /\ frame[c].pc = "called"

\* The generator has run: its outcome is in the invocation's local. A body
\* that fails validation is answered before the handler is entered.
Enter(c, valid, result) ==
    IF valid
        THEN /\ frame' = [frame EXCEPT ![FrameOf(c)].result = result,
                                        ![c].pc = "called"]
             /\ UNCHANGED <<request, response>>
        ELSE /\ response' = [response EXCEPT ![c] = ValidationError]
             /\ frame' = [frame EXCEPT ![c].pc = "done"]
             /\ UNCHANGED request

\* return {"explanation": explanation}, or the except clause
Leave(c) ==
    /\ response' = [response EXCEPT ![c] = TryReturn(frame[FrameOf(c)].result)]
    /\ frame' = [frame EXCEPT ![c].pc = "done"]
    /\ UNCHANGED request

ExplainLoanCall(c) ==
    /\ Idle(c, "explain_loan")
    /\ Enter(c, ValidApplication(request[c].application),
             generate_loan_explanation(request[c].application, request[c].prediction))

ExplainLoanReturn(c) ==
    /\ InFlight(c, "explain_loan")
    /\ Leave(c)

ExplainBiasCall(c) ==
    /\ Idle(c, "explain_bias")
    /\ Enter(c, ValidFairness(request[c].fairness_data),
             generate_bias_explanation(request[c].fairness_data))

ExplainBiasReturn(c) ==
    /\ InFlight(c, "explain_bias")
    /\ Leave(c)

RemediationStrategyCall(c) ==
    /\ Idle(c, "remediation_strategy")
    /\ Enter(c, ValidFairness(request[c].fairness_data),
             generate_remediation_strategy(request[c].fairness_data))

RemediationStrategyReturn(c) ==
    /\ InFlight(c, "remediation_strategy")
    /\ Leave(c)

----------------------------------------------------------------------------
(* Requests                                                                *)

Item(group, rate) == [group |-> group, rate |-> rate, numeric |-> TRUE]

Metrics(rates, disparity) == [approval_rates |-> rates, approval_disparity |-> disparity]

\* the sample metrics /fairness returns (fp_rates, fn_rates and their
\* disparities are never read by the generator and are left out)
get_fairness_metrics ==
    [gender |-> Metrics(<< Item("Male", 720), Item("Female", 640) >>, 80),
     race |-> Metrics(<< Item("White", 750), Item("Black", 620),
                         Item("Asian", 700), Item("Hispanic", 650) >>, 130),
     age_group |-> Metrics(<< Item("Under 25", 650), Item("25-60", 720),
                              Item("Over 60", 680) >>, 70),
     disability_status |-> Metrics(<< Item("Yes", 620), Item("No", 730) >>, 110)]

DispValues == {DispStep * k : k \in (-MaxDisp)..MaxDisp}

\* the sample's rates with the four disparities d
GridReport(d) ==
    [a \in AttributeKeySet |-> Metrics(get_fairness_metrics[a].approval_rates, d[a])]

RateValues == {600, 700}

Min(a, b) == IF a < b THEN a ELSE b

\* the mappings over the first n groups of the sample's mapping
RateMapsOfLen(a, n) ==
    LET sample == get_fairness_metrics[a].approval_rates
    IN  {[i \in 1..n |-> Item(sample[i].group, r[i])] : r \in [1..n -> RateValues]}

\* mappings of 0 .. MaxGroups groups, and one whose first rate is no number
RateMaps(a) ==
    LET sample == get_fairness_metrics[a].approval_rates
    IN  UNION {RateMapsOfLen(a, n) : n \in 0..Min(MaxGroups, Len(sample))}
            \cup {<< [group |-> sample[1].group, rate |-> 0, numeric |-> FALSE] >>}

\* the sample's disparities with the four rate mappings m
RateReport(m) ==
    [a \in AttributeKeySet |-> Metrics(m[a], get_fairness_metrics[a].approval_disparity)]

\* the sample with only the attributes of "present"
PartialReport(present) == [a \in present |-> get_fairness_metrics[a]]

FactorKeys ==
    << << "c", "r", "e", "d", "i", "t", "_", "s", "c", "o", "r", "e" >>,
       << "i", "n", "c", "o", "m", "e" >>,
       << "l", "o", "a", "n", "_", "a", "m", "o", "u", "n", "t" >>,
       << "a", "g", "e" >>,
       << "g", "e", "n", "d", "e", "r" >>,
       << "r", "a", "c", "e" >> >>

Factor(factor, impact) == [factor |-> factor, impact |-> impact]

\* the explanation mapping predict returns for every application
PredictExplanation ==
    << Factor(FactorKeys[1], 400), Factor(FactorKeys[2], 300), Factor(FactorKeys[3], 200),
       Factor(FactorKeys[4], 50), Factor(FactorKeys[5], 30), Factor(FactorKeys[6], 20) >>

ImpactValues == {-100, 200, 400}

\* mappings of the first 0 .. MaxFactors factors, in that iteration order
Explanations ==
    UNION {{[i \in 1..n |-> Factor(FactorKeys[i], v[i])] : v \in [1..n -> ImpactValues]} :
                n \in 0..Min(MaxFactors, Len(FactorKeys))}
        \cup {PredictExplanation}

Applications ==
    { [credit_score |-> 720, income |-> 85000 * Scale],
      [credit_score |-> 580, income |-> 1234567 * Scale + 500],
      [credit_score |-> 640] }

Predictions ==
    [approved : BOOLEAN, approval_probability : {200, 800}, explanation : Explanations]

FairnessOps == {"explain_bias", "remediation_strategy"}

FairnessRequest(op, fd) == [op |-> op, fairness_data |-> fd]

LoanRequest(a, p) == [op |-> "explain_loan", application |-> a, prediction |-> p]

----------------------------------------------------------------------------
(* Specifications                                                          *)

\* One request, answered once.  The fairness reports are every combination
\* of four disparities, every combination of four rate mappings and every
\* set of missing attributes.
Init ==
    /\ \/ \E op \in FairnessOps, d \in [AttributeKeySet -> DispValues] :
            request = [c \in {"c1"} |-> FairnessRequest(op, GridReport(d))]
       \/ \E op \in FairnessOps, g \in RateMaps("gender"), r \in RateMaps("race"),
             a \in RateMaps("age_group"), d \in RateMaps("disability_status") :
            request = [c \in {"c1"} |-> FairnessRequest(op,
                RateReport([gender |-> g, race |-> r, age_group |-> a, disability_status |-> d]))]
       \/ \E op \in FairnessOps, present \in SUBSET AttributeKeySet :
            request = [c \in {"c1"} |-> FairnessRequest(op, PartialReport(present))]
       \/ \E a \in Applications, p \in Predictions :
            request = [c \in {"c1"} |-> LoanRequest(a, p)]
    /\ response = [c \in {"c1"} |-> NoResponse]
    /\ frame = [c \in {"c1"} |-> NoFrame]

Next ==
    \/ \E c \in DOMAIN request : ExplainLoan(c)
    \/ \E c \in DOMAIN request : ExplainBias(c)
    \/ \E c \in DOMAIN request : RemediationStrategy(c)

Spec == Init /\ [][Next]_vars

\* Two requests, each answered once, in either order.  The fairness reports
\* are every combination of four disparities, with the sample's rates or
\* with other rates.
PairDispValues == {PairStep * k : k \in 0..PairMaxDisp}

OtherRates(a) ==
    LET sample == get_fairness_metrics[a].approval_rates
    IN  << Item(sample[1].group, 600), Item(sample[2].group, 700) >>

PairReports ==
    {GridReport(d) : d \in [AttributeKeySet -> PairDispValues]}
        \cup {[a \in AttributeKeySet |-> Metrics(OtherRates(a), d[a])] :
                    d \in [AttributeKeySet -> PairDispValues]}

PairRequests ==
    {FairnessRequest(op, fd) : op \in FairnessOps, fd \in PairReports}
        \cup {LoanRequest([credit_score |-> 720, income |-> 85000 * Scale],
                          [approved |-> b, approval_probability |-> 800,
                           explanation |-> PredictExplanation]) : b \in BOOLEAN}

InitPair ==
    /\ request \in [{"c1", "c2"} -> PairRequests]
    /\ response = [c \in {"c1", "c2"} |-> NoResponse]
    /\ frame = [c \in {"c1", "c2"} |-> NoFrame]

SpecPair == InitPair /\ [][Next]_vars

\* Two invocations in flight at once: each calls its generator and returns
\* in separate steps, interleaved in every order.  The requests are the
\* reports of four disparities, a report that makes the generator raise, a
\* body that fails validation, and loan explanations.
ConcRequests ==
    {FairnessRequest(op, GridReport(d)) :
            op \in FairnessOps, d \in [AttributeKeySet -> PairDispValues]}
        \cup {FairnessRequest(op, RateReport([a \in AttributeKeySet |-> << >>])) :
                    op \in FairnessOps}
        \cup {FairnessRequest(op, PartialReport({"gender"})) : op \in FairnessOps}
        \cup {LoanRequest(a, [approved |-> TRUE, approval_probability |-> 800,
                              explanation |-> PredictExplanation]) : a \in Applications}

InitConc ==
    /\ request \in [{"c1", "c2"} -> ConcRequests]
    /\ response = [c \in {"c1", "c2"} |-> NoResponse]
    /\ frame = [c \in {"c1", "c2"} |-> NoFrame]

NextConc ==
    \/ \E c \in DOMAIN request : ExplainLoanCall(c)
    \/ \E c \in DOMAIN request : ExplainLoanReturn(c)
    \/ \E c \in DOMAIN request : ExplainBiasCall(c)
    \/ \E c \in DOMAIN request : ExplainBiasReturn(c)
    \/ \E c \in DOMAIN request : RemediationStrategyCall(c)
    \/ \E c \in DOMAIN request : RemediationStrategyReturn(c)

SpecConc == InitConc /\ [][NextConc]_vars

----------------------------------------------------------------------------
(* loan_report.py: the paragraphs of the explanation text                  *)

\* A text is a sequence of one-character strings.

\* str.replace('**', ''): the pairs are removed from left to right
RECURSIVE RemoveDoubleStar(_)
RemoveDoubleStar(text) ==
    IF text = << >> THEN << >>
    ELSE IF Len(text) >= 2 /\ text[1] = "*" /\ text[2] = "*"
        THEN RemoveDoubleStar(SubSeq(text, 3, Len(text)))
        ELSE << text[1] >> \o RemoveDoubleStar(Tail(text))

NotStar(ch) == ch # "*"

\* str.replace('*', '')
RemoveStar(text) == SelectSeq(text, NotStar)

\* processed_text
ProcessedText(explanation_text) == RemoveStar(RemoveDoubleStar(explanation_text))

\* str.split('\n'): the empty text is one empty line
RECURSIVE SplitLines(_)
SplitLines(text) ==
    IF \A i \in 1..Len(text) : text[i] # "\n" THEN << text >>
    ELSE LET k == CHOOSE i \in 1..Len(text) :
                    text[i] = "\n" /\ \A j \in 1..(i - 1) : text[j] # "\n"
         IN  << SubSeq(text, 1, k - 1) >> \o SplitLines(SubSeq(text, k + 1, Len(text)))

\* the characters str.strip() removes
Whitespace == {" ", "\t", "\n", "\r", "\f"}

\* mutant: only the empty line ends a paragraph
IsBlank_EmptyOnly(line) == line = << >>

\* not line.strip()
IsBlank(line) == \A i \in 1..Len(line) : line[i] \in Whitespace

NotBlank(line) == ~IsBlank(line)

\* ' '.join(current_paragraph)
RECURSIVE JoinLines(_)
JoinLines(lines) ==
    IF lines = << >> THEN << >>
    ELSE IF Len(lines) = 1 THEN lines[1]
    ELSE lines[1] \o << " " >> \o JoinLines(Tail(lines))

\* the loop over the lines, and the paragraph still open when it ends
RECURSIVE ParagraphLoop(_, _, _)
ParagraphLoop(lines, current_paragraph, paragraphs) ==
    IF lines = << >>
        THEN IF current_paragraph # << >>
                THEN Append(paragraphs, JoinLines(current_paragraph))
                ELSE paragraphs
    ELSE IF NotBlank(Head(lines))
        THEN ParagraphLoop(Tail(lines), Append(current_paragraph, Head(lines)), paragraphs)
    ELSE IF current_paragraph # << >>
        THEN ParagraphLoop(Tail(lines), << >>,
                           Append(paragraphs, JoinLines(current_paragraph)))
        ELSE ParagraphLoop(Tail(lines), current_paragraph, paragraphs)

\* the Paragraph flowables generate_loan_report appends under "Detailed
\* Explanation", each followed by a Spacer
generate_loan_report(explanation_text) ==
    SelectSeq(ParagraphLoop(SplitLines(ProcessedText(explanation_text)), << >>, << >>),
              NotBlank)

\* the handler passes body.get('explanation', '') and answers with the PDF
Pdf(paragraphs) == [status |-> 200, paragraphs |-> paragraphs]

generate_loan_decision_pdf(body) ==
    Pdf(generate_loan_report(
            IF "explanation" \in DOMAIN body THEN body.explanation ELSE << >>))

LoanDecisionPdf(c) ==
    /\ Pending(c, "loan_decision_pdf")
    /\ response' = [response EXCEPT ![c] = generate_loan_decision_pdf(request[c].body)]
    /\ UNCHANGED <<request, frame>>

----------------------------------------------------------------------------
(* predict and get_visualization                                           *)

PredictMargin == 1

CreditScoreFloor == 600

IncomeFloor == 50000

LoanToIncome == 3

ApprovedProbability == 800

DeniedProbability == 200

\* The fields of LoanApplication that predict reads (age only to label the
\* age group); the seven others are required too but never read.
PredictFields == {"gender", "race", "age", "income", "credit_score", "loan_amount"}

\* mutant: a credit score of exactly 600 is not enough
RuleApproves_StrictCredit(application) ==
    /\ application.credit_score > CreditScoreFloor
    /\ application.income >= IncomeFloor * Scale
    /\ application.loan_amount <= application.income * LoanToIncome

\* the hardcoded rule that stands for the model
RuleApproves(application) ==
    /\ application.credit_score >= CreditScoreFloor
    /\ application.income >= IncomeFloor * Scale
    /\ application.loan_amount <= application.income * LoanToIncome

Prediction(approved, probability, explanation) ==
    [status |-> 200, approved |-> approved, approval_probability |-> probability,
     explanation |-> explanation]

predict(application) ==
    LET approved == RuleApproves(application)
        probability == IF approved THEN ApprovedProbability ELSE DeniedProbability
    IN  Prediction(approved, probability, PredictExplanation)

Predict(c) ==
    /\ Pending(c, "predict")
    /\ response' = [response EXCEPT ![c] =
            IF DOMAIN request[c].application = PredictFields
                THEN predict(request[c].application)
                ELSE ValidationError]
    /\ UNCHANGED <<request, frame>>

\* the keys of viz_map
viz_map ==
    {"gender_approval", "race_approval", "age_approval", "disability_approval",
     "gender_error", "race_error", "age_error", "disability_error",
     "shap_summary", "shap_bar", "bias_summary"}

NotFoundDetail(viz_type) == "Visualization " \o viz_type \o " not found"

Placeholder(viz_type) ==
    [status |-> 200, message |-> "Visualization " \o viz_type \o " would be returned here"]

\* str(e) of an HTTPException: "<status_code>: <detail>" where the installed
\* Starlette defines __str__, the empty string where it does not
StrOfHTTPException(status_code, detail) ==
    {"", ToString(status_code) \o ": " \o detail}

\* The HTTPException(404) is raised inside the try block, and HTTPException
\* is an Exception: the except clause catches it and raises a 500 whose
\* detail is str(e).  The set is of the answers the handler can give.
get_visualization(viz_type) ==
    IF viz_type \notin viz_map
        THEN {HTTPError(500, d) : d \in StrOfHTTPException(404, NotFoundDetail(viz_type))}
        ELSE {Placeholder(viz_type)}

GetVisualization(c) ==
    /\ Pending(c, "get_visualization")
    /\ \E answer \in get_visualization(request[c].viz_type) :
            response' = [response EXCEPT ![c] = answer]
    /\ UNCHANGED <<request, frame>>

----------------------------------------------------------------------------
(* The requests to predict, get_visualization and loan-decision-pdf        *)

MaxLines == 5

\* the lines the explanation texts of the model are made of
LineValues ==
    { << >>, << " " >>, << "a" >>, << "*", "b", "*" >>, << "*", "*", "*" >> }

\* '\n'.join(lines)
RECURSIVE JoinNewline(_)
JoinNewline(lines) ==
    IF lines = << >> THEN << >>
    ELSE IF Len(lines) = 1 THEN lines[1]
    ELSE lines[1] \o << "\n" >> \o JoinNewline(Tail(lines))

ExplanationTexts ==
    UNION {{JoinNewline(lines) : lines \in [1..n -> LineValues]} : n \in 0..MaxLines}

PdfRequest(body) == [op |-> "loan_decision_pdf", body |-> body]

IncomeValues == {IncomeFloor * Scale + k : k \in (-PredictMargin)..PredictMargin}

PredictApplications ==
    [gender : {"Male", "Female"}, race : {"White", "Black"}, age : {24, 61},
     income : IncomeValues,
     credit_score : {CreditScoreFloor + k : k \in (-PredictMargin)..PredictMargin},
     loan_amount : {i * LoanToIncome + k : i \in IncomeValues, k \in (-PredictMargin)..PredictMargin}]

PredictRequest(application) == [op |-> "predict", application |-> application]

VizTypes == viz_map \cup {"unknown", "Gender_Approval", "gender"}

VizRequest(viz_type) == [op |-> "get_visualization", viz_type |-> viz_type]

InitRoutes ==
    /\ \/ \E text \in ExplanationTexts :
            request = [c \in {"c1"} |-> PdfRequest([explanation |-> text])]
       \/ request = [c \in {"c1"} |-> PdfRequest([application |-> << >>])]
       \/ \E application \in PredictApplications :
            request = [c \in {"c1"} |-> PredictRequest(application)]
       \/ request = [c \in {"c1"} |-> PredictRequest([credit_score |-> 640])]
       \/ \E viz_type \in VizTypes :
            request = [c \in {"c1"} |-> VizRequest(viz_type)]
    /\ response = [c \in {"c1"} |-> NoResponse]
    /\ frame = [c \in {"c1"} |-> NoFrame]

NextRoutes ==
    \/ \E c \in DOMAIN request : LoanDecisionPdf(c)
    \/ \E c \in DOMAIN request : Predict(c)
    \/ \E c \in DOMAIN request : GetVisualization(c)

SpecRoutes == InitRoutes /\ [][NextRoutes]_vars

----------------------------------------------------------------------------
(* Reading a request and the document that answers it                      *)

Answered(c, op) == request[c].op = op /\ response[c].status = 200

Doc(c) == response[c].explanation

\* the display names of the four attributes, in the fixed input order
AttributeNames == << "Gender", "Race", "Age Group", "Disability Status" >>

\* approval_disparity x 100 of the i-th attribute of a report
DisparityOf(fd, i) == fd[AttributeKeys[i]].approval_disparity * 100

\* the largest absolute disparity is above t percentage points
SomeAbove(fd, t) == \E i \in 1..4 : Abs(DisparityOf(fd, i)) > t * 1000

\* the lines of a document that follow line i, up to the next empty line
RECURSIVE Block(_, _)
Block(doc, i) ==
    IF i + 1 > Len(doc) \/ doc[i + 1] = "" THEN <<>>
    ELSE <<doc[i + 1]>> \o Block(doc, i + 1)

\* the positions of a line in a document
Positions(doc, line) == {i \in 1..Len(doc) : doc[i] = line}

Contains(doc, line) == Positions(doc, line) # {}

\* the attribute headings of a bias report, as indexes of AttributeNames, in
\* the order they appear
Headings(doc) ==
    LET IsHeading(line) == \E i \in 1..4 : line = "**" \o AttributeNames[i] \o "**:"
        IndexOf(line) == CHOOSE i \in 1..4 : line = "**" \o AttributeNames[i] \o "**:"
        lines == SelectSeq(doc, IsHeading)
    IN  [k \in 1..Len(lines) |-> IndexOf(lines[k])]

\* the subsection of the i-th attribute: the lines under its first heading
SubsectionOf(doc, i) ==
    LET heading == "**" \o AttributeNames[i] \o "**:"
    IN  Block(doc, CHOOSE p \in Positions(doc, heading) :
                        \A q \in Positions(doc, heading) : p <= q)

Last(doc) == doc[Len(doc)]

----------------------------------------------------------------------------
(* C1 *)

\* C1: in every bias report the summary alert (line 5) is the High Bias
\* Alert exactly when some |disparity| is above 10, the Moderate Bias Alert
\* exactly when none is above 10 and some is above 5, and the Low Bias Alert
\* exactly when none is above 5; so a maximum of exactly 10 gives Moderate
\* and a maximum of exactly 5 gives Low.
C1_AlertTiers ==
    \A c \in DOMAIN request :
        Answered(c, "explain_bias") =>
            LET fd == request[c].fairness_data
                alert == Doc(c)[5]
            IN  /\ alert \in {HighAlertLine, ModerateAlertLine, LowAlertLine}
                /\ alert = HighAlertLine <=> SomeAbove(fd, 10)
                /\ alert = ModerateAlertLine <=> (~SomeAbove(fd, 10) /\ SomeAbove(fd, 5))
                /\ alert = LowAlertLine <=> ~SomeAbove(fd, 5)

\* a report whose largest |disparity| is exactly 10, answered Moderate, the
\* 10 being a negative disparity
C1_Witness ==
    \E c \in DOMAIN request :
        /\ Answered(c, "explain_bias")
        /\ ~SomeAbove(request[c].fairness_data, 10)
        /\ \E i \in 1..4 : DisparityOf(request[c].fairness_data, i) = -10000
        /\ Doc(c)[5] = ModerateAlertLine

----------------------------------------------------------------------------
(* C2 *)

\* C2: every bias report has exactly four attribute headings, one for each
\* of the four attributes, in order of non-increasing |disparity|, and two
\* attributes of equal |disparity| appear in the input order Gender, Race,
\* Age Group, Disability Status.
C2_RankedSubsections ==
    \A c \in DOMAIN request :
        Answered(c, "explain_bias") =>
            LET fd == request[c].fairness_data
                h == Headings(Doc(c))
            IN  /\ Len(h) = 4
                /\ {h[k] : k \in 1..Len(h)} = 1..4
                /\ \A k \in 1..(Len(h) - 1) :
                      \/ Abs(DisparityOf(fd, h[k])) > Abs(DisparityOf(fd, h[k + 1]))
                      \/ /\ Abs(DisparityOf(fd, h[k])) = Abs(DisparityOf(fd, h[k + 1]))
                         /\ h[k] < h[k + 1]

\* a report where Race and Disability Status tie with opposite signs above
\* the two others, answered with Race before Disability Status
C2_Witness ==
    \E c \in DOMAIN request :
        /\ Answered(c, "explain_bias")
        /\ LET fd == request[c].fairness_data
           IN  /\ DisparityOf(fd, 2) = -DisparityOf(fd, 4)
               /\ DisparityOf(fd, 4) > Abs(DisparityOf(fd, 1))
               /\ Abs(DisparityOf(fd, 1)) > Abs(DisparityOf(fd, 3))
        /\ Headings(Doc(c)) = <<2, 4, 1, 3>>

----------------------------------------------------------------------------
(* C3 *)

\* C3: in every bias report the subsection of an attribute holds the
\* Regulatory concern sentence exactly when that attribute's own
\* |disparity| is above 5, whatever the three others are; and when the four
\* disparities are zero the alert is Low and the sentence appears nowhere.
C3_RegulatoryFlag ==
    \A c \in DOMAIN request :
        Answered(c, "explain_bias") =>
            LET fd == request[c].fairness_data
            IN  /\ \A i \in 1..4 :
                      Contains(SubsectionOf(Doc(c), i), RegulatoryLine)
                          <=> Abs(DisparityOf(fd, i)) > 5000
                /\ (\A i \in 1..4 : DisparityOf(fd, i) = 0) =>
                      /\ Doc(c)[5] = LowAlertLine
                      /\ ~Contains(Doc(c), RegulatoryLine)

\* a High report in which one attribute is at exactly 5 and not flagged and
\* another is above 5 and flagged
C3_Witness ==
    \E c \in DOMAIN request :
        /\ Answered(c, "explain_bias")
        /\ SomeAbove(request[c].fairness_data, 10)
        /\ \E i, j \in 1..4 :
              /\ Abs(DisparityOf(request[c].fairness_data, i)) = 5000
              /\ ~Contains(SubsectionOf(Doc(c), i), RegulatoryLine)
              /\ Abs(DisparityOf(request[c].fairness_data, j)) = 7500
              /\ Contains(SubsectionOf(Doc(c), j), RegulatoryLine)

----------------------------------------------------------------------------
(* C4 *)

\* C4: in every bias report the conclusion (the last line) is of the tier
\* of the summary alert (line 5): the "requires immediate attention"
\* sentence with the High alert and only with it, the "moderate bias that
\* should be addressed" sentence with the Moderate alert and only with it,
\* the "acceptable levels of bias" sentence with the Low alert and only with
\* it.
C4_ConclusionMatchesAlert ==
    \A c \in DOMAIN request :
        Answered(c, "explain_bias") =>
            LET alert == Doc(c)[5]
                conclusion == Last(Doc(c))
            IN  /\ conclusion \in {HighConclusionLine, ModerateConclusionLine, LowConclusionLine}
                /\ conclusion = HighConclusionLine <=> alert = HighAlertLine
                /\ conclusion = ModerateConclusionLine <=> alert = ModerateAlertLine
                /\ conclusion = LowConclusionLine <=> alert = LowAlertLine

\* a report at exactly 10, both Moderate in the summary and in the conclusion
C4_Witness ==
    \E c \in DOMAIN request :
        /\ Answered(c, "explain_bias")
        /\ ~SomeAbove(request[c].fairness_data, 10)
        /\ \E i \in 1..4 : DisparityOf(request[c].fairness_data, i) = 10000
        /\ Doc(c)[5] = ModerateAlertLine
        /\ Last(Doc(c)) = ModerateConclusionLine

----------------------------------------------------------------------------
(* C5 *)

\* the first attribute, in the input order, whose |disparity| is the largest
FirstLargest(fd) ==
    CHOOSE i \in 1..4 :
        /\ \A j \in 1..4 : Abs(DisparityOf(fd, j)) <= Abs(DisparityOf(fd, i))
        /\ \A j \in 1..(i - 1) : Abs(DisparityOf(fd, j)) < Abs(DisparityOf(fd, i))

FocusSentence(i) ==
    "   - Focus particularly on " \o AttributeNames[i]
        \o " fairness, which shows the highest disparity"

\* C5: in every remediation strategy the "Focus particularly on" sentence
\* (line 8) names the attribute whose |disparity| is the largest of the
\* four, the first of them in the order Gender, Race, Age Group, Disability
\* Status when several are largest, and no other attribute is named; for the
\* sample metrics of /fairness it names Race.
C5_FocusNamesLargest ==
    \A c \in DOMAIN request :
        Answered(c, "remediation_strategy") =>
            LET fd == request[c].fairness_data
            IN  /\ Doc(c)[8] = FocusSentence(FirstLargest(fd))
                /\ \A i \in 1..4 : Contains(Doc(c), FocusSentence(i)) => i = FirstLargest(fd)
                /\ fd = get_fairness_metrics =>
                      Doc(c)[8] = "   - Focus particularly on Race fairness, which shows the highest disparity"

\* a report whose largest |disparity| is shared by Race, with a negative
\* disparity, and Disability Status, answered by naming Race
C5_Witness ==
    \E c \in DOMAIN request :
        /\ Answered(c, "remediation_strategy")
        /\ LET fd == request[c].fairness_data
           IN  /\ DisparityOf(fd, 2) < 0
               /\ DisparityOf(fd, 4) = -DisparityOf(fd, 2)
               /\ Abs(DisparityOf(fd, 1)) < DisparityOf(fd, 4)
               /\ Abs(DisparityOf(fd, 3)) < DisparityOf(fd, 4)
        /\ Doc(c)[8] = FocusSentence(2)

----------------------------------------------------------------------------
(* C6 *)

\* C6: of any two remediation strategies, those of reports with the same
\* most-disparate attribute are the same document, whatever the rates and
\* the disparities, and those of reports with different most-disparate
\* attributes have the same number of lines and differ in the "Focus
\* particularly on" sentence and in no other line.
C6_DependsOnRankOneOnly ==
    \A c1, c2 \in DOMAIN request :
        (Answered(c1, "remediation_strategy") /\ Answered(c2, "remediation_strategy")) =>
            LET m1 == FirstLargest(request[c1].fairness_data)
                m2 == FirstLargest(request[c2].fairness_data)
            IN  /\ Len(Doc(c1)) = Len(Doc(c2))
                /\ m1 = m2 => Doc(c1) = Doc(c2)
                /\ m1 # m2 => Doc(c1) # Doc(c2)
                /\ \A i \in 1..Len(Doc(c1)) :
                      Doc(c1)[i] # Doc(c2)[i] =>
                          /\ Doc(c1)[i] = FocusSentence(m1)
                          /\ Doc(c2)[i] = FocusSentence(m2)

\* two reports that differ in every rate and in three disparities, with the
\* same most-disparate attribute, answered with the same document
C6_Witness ==
    /\ DOMAIN request = {"c1", "c2"}
    /\ Answered("c1", "remediation_strategy")
    /\ Answered("c2", "remediation_strategy")
    /\ LET fd1 == request["c1"].fairness_data
           fd2 == request["c2"].fairness_data
       IN  /\ \A a \in AttributeKeySet : fd1[a].approval_rates # fd2[a].approval_rates
           /\ Cardinality({a \in AttributeKeySet :
                    fd1[a].approval_disparity # fd2[a].approval_disparity}) = 3
           /\ FirstLargest(fd1) = FirstLargest(fd2)
    /\ Doc("c1") = Doc("c2")

----------------------------------------------------------------------------
(* C7 *)

\* the factor bullets of a loan explanation: the lines under line 4, "The
\* key factors ... include:", up to the next empty line
FactorBullets(doc) == Block(doc, 4)

\* the bullet that lists the i-th factor of the request's explanation mapping
BulletOf(c, i) ==
    IF request[c].prediction.approved
        THEN ApprovedBullet(request[c].prediction.explanation[i])
        ELSE DeniedBullet(request[c].prediction.explanation[i])

\* C7: in every loan explanation, for a mapping of n factors there are
\* exactly min(3, n) factor bullets, each lists a factor of the mapping and
\* no factor is listed twice, the impacts of the listed factors do not
\* increase down the list, and no unlisted factor has an impact above that
\* of a listed one; an empty mapping gives no bullet and a document that
\* still ends with the signature; and for the mapping predict returns the
\* bullets are Credit Score, Income, Loan Amount in that order.
C7_TopThreeFactors ==
    \A c \in DOMAIN request :
        Answered(c, "explain_loan") =>
            LET x == request[c].prediction.explanation
                b == FactorBullets(Doc(c))
                listed(k) == CHOOSE i \in 1..Len(x) : b[k] = BulletOf(c, i)
                names == [k \in 1..Len(b) |-> FactorName(x[listed(k)].factor)]
            IN  /\ Len(b) = IF Len(x) < 3 THEN Len(x) ELSE 3
                /\ \A k \in 1..Len(b) : \E i \in 1..Len(x) : b[k] = BulletOf(c, i)
                /\ \A k, l \in 1..Len(b) : k # l => b[k] # b[l]
                /\ \A k \in 1..(Len(b) - 1) :
                      x[listed(k)].impact >= x[listed(k + 1)].impact
                /\ \A i \in 1..Len(x) :
                      (\A k \in 1..Len(b) : listed(k) # i) =>
                          \A k \in 1..Len(b) : x[i].impact <= x[listed(k)].impact
                /\ Len(x) = 0 => (b = <<>> /\ Last(Doc(c)) = "BiasShield Decision System")
                /\ x = PredictExplanation =>
                      names = << "Credit Score", "Income", "Loan Amount" >>

\* a mapping of four factors whose last has the largest impact and whose
\* first has the smallest: the last is listed first, the first is not listed
C7_Witness ==
    \E c \in DOMAIN request :
        /\ Answered(c, "explain_loan")
        /\ LET x == request[c].prediction.explanation
               b == FactorBullets(Doc(c))
           IN  /\ Len(x) = 4
               /\ \A i \in 1..3 : x[i].impact < x[4].impact
               /\ \A i \in 2..4 : x[1].impact < x[i].impact
               /\ Len(b) = 3
               /\ b[1] = BulletOf(c, 4)
               /\ \A k \in 1..3 : b[k] # BulletOf(c, 1)

----------------------------------------------------------------------------
(* C8 *)

MaintenanceHeader == "Recommendations:"

ImprovementHeader == "Recommendations to improve your future applications:"

\* the lines under a header that appears once, up to the next empty line
Under(doc, header) == Block(doc, CHOOSE p \in Positions(doc, header) : TRUE)

\* C8: a loan explanation is chosen by the approved flag alone, whatever the
\* probability.  Approved: the approval opening, the stability statement with
\* the credit score and the income, exactly the 3 maintenance
\* recommendations, and neither the improvement recommendations nor the
\* invitation.  Not approved: the denial opening, exactly the 4 improvement
\* recommendations, the invitation to request a detailed explanation, and no
\* stability statement.  In both: opening (line 2), then the factor bullets,
\* then the recommendations, and the last line, and no other, is the
\* signature "BiasShield Decision System".
C8_SectionsByApprovedFlag ==
    \A c \in DOMAIN request :
        Answered(c, "explain_loan") =>
            LET doc == Doc(c)
                prediction == request[c].prediction
                application == request[c].application
                bullets == FactorBullets(doc)
                header == IF prediction.approved THEN MaintenanceHeader ELSE ImprovementHeader
            IN  /\ prediction.approved =>
                      /\ doc[2] = ApprovedOpening(prediction.approval_probability * 100)
                      /\ Contains(doc, StabilityLine(application))
                      /\ Cardinality(Positions(doc, MaintenanceHeader)) = 1
                      /\ Under(doc, MaintenanceHeader) = MaintenanceRecommendations
                      /\ Len(Under(doc, MaintenanceHeader)) = 3
                      /\ ~Contains(doc, ImprovementHeader)
                      /\ \A k \in 1..Len(ImprovementRecommendations) :
                            ~Contains(doc, ImprovementRecommendations[k])
                      /\ ~Contains(doc, InvitationLine)
                /\ ~prediction.approved =>
                      /\ doc[2] = DeniedOpening(prediction.approval_probability * 100)
                      /\ Cardinality(Positions(doc, ImprovementHeader)) = 1
                      /\ Under(doc, ImprovementHeader) = ImprovementRecommendations
                      /\ Len(Under(doc, ImprovementHeader)) = 4
                      /\ Contains(doc, InvitationLine)
                      /\ ~Contains(doc, StabilityLine(application))
                      /\ ~Contains(doc, MaintenanceHeader)
                      /\ \A k \in 1..Len(MaintenanceRecommendations) :
                            ~Contains(doc, MaintenanceRecommendations[k])
                /\ \A p \in Positions(doc, header) : p > 4 + Len(bullets)
                /\ Positions(doc, "BiasShield Decision System") = {Len(doc)}

\* an application that is not approved although its probability is 80%,
\* answered with the 4 improvement recommendations and the invitation
C8_Witness ==
    \E c \in DOMAIN request :
        /\ Answered(c, "explain_loan")
        /\ ~request[c].prediction.approved
        /\ request[c].prediction.approval_probability = 800
        /\ Len(FactorBullets(Doc(c))) = 3
        /\ Len(Under(Doc(c), ImprovementHeader)) = 4
        /\ Contains(Doc(c), InvitationLine)

----------------------------------------------------------------------------
(* C9 *)

\* C9: in every bias report, for each attribute, approval_disparity is the
\* largest minus the smallest of approval_rates, and the subsection's
\* "Approval rate disparity" is the rate of its "Highest approval rate" line
\* minus the rate of its "Lowest approval rate" line.
C9_DisparityIsSpread ==
    \A c \in DOMAIN request :
        Answered(c, "explain_bias") =>
            \A i \in 1..4 :
                LET metrics == request[c].fairness_data[AttributeKeys[i]]
                    rates == metrics.approval_rates
                    sub == SubsectionOf(Doc(c), i)
                IN  \E hi, lo \in 1..Len(rates) :
                        /\ \A j \in 1..Len(rates) :
                              rates[lo].rate <= rates[j].rate /\ rates[j].rate <= rates[hi].rate
                        /\ metrics.approval_disparity = rates[hi].rate - rates[lo].rate
                        /\ sub[2] = HighestLine(rates[hi])
                        /\ sub[3] = LowestLine(rates[lo])
                        /\ sub[1] = DisparityLine((rates[hi].rate - rates[lo].rate) * 100)

----------------------------------------------------------------------------
(* C10 *)

\* every section of the bias report's template is there
CompleteBiasReport(doc) ==
    /\ Len(doc) >= 3
    /\ Positions(doc, "## Bias Analysis Report") = {1}
    /\ Cardinality(Positions(doc, "### Summary of Findings")) = 1
    /\ doc[5] \in {HighAlertLine, ModerateAlertLine, LowAlertLine}
    /\ Cardinality(Positions(doc, "### Detailed Analysis")) = 1
    /\ Len(Headings(doc)) = 4
    /\ \A i \in 1..4 :
          /\ Contains(doc, "**" \o AttributeNames[i] \o "**:")
          /\ Len(SubsectionOf(doc, i)) \in {3, 4}
    /\ Positions(doc, "### Conclusion") = {Len(doc) - 2}
    /\ Last(doc) \in {HighConclusionLine, ModerateConclusionLine, LowConclusionLine}

\* every section of the remediation strategy's template is there
CompleteRemediationStrategy(doc) ==
    /\ Positions(doc, "## Bias Remediation Strategy") = {1}
    /\ \A header \in {"### Technical Strategies", "### Feature Engineering Approaches",
                      "### Policy Recommendations", "### Implementation Considerations"} :
          Cardinality(Positions(doc, header)) = 1
    /\ \A header \in {"1. **Fairness Constraints**:", "2. **Data Rebalancing**:",
                      "3. **Model Adjustments**:", "3. **Validation Approach**:",
                      "2. **Monitoring Framework**:", "2. **Regulatory Compliance**:"} :
          /\ Cardinality(Positions(doc, header)) = 1
          /\ Len(Under(doc, header)) = 3
    /\ \A header \in {"1. **Feature Selection**:", "2. **Feature Transformation**:",
                      "1. **Process Changes**:", "1. **Performance Tradeoffs**:"} :
          /\ Cardinality(Positions(doc, header)) = 1
          /\ Len(Under(doc, header)) = 2
    /\ \E i \in 1..4 : doc[8] = FocusSentence(i)
    /\ Len(doc) >= 2
    /\ doc[Len(doc) - 1] = "   - Establish a feedback loop for continuous improvement"

\* every section of the loan explanation's template is there
CompleteLoanExplanation(doc) ==
    /\ Len(doc) >= 4
    /\ doc[2] # ""
    /\ doc[4] \in {"The key factors that positively influenced this decision include:",
                   "The key factors that influenced this decision include:"}
    /\ \/ /\ Cardinality(Positions(doc, MaintenanceHeader)) = 1
          /\ Under(doc, MaintenanceHeader) = MaintenanceRecommendations
          /\ Contains(doc, ThankYouLine)
       \/ /\ Cardinality(Positions(doc, ImprovementHeader)) = 1
          /\ Under(doc, ImprovementHeader) = ImprovementRecommendations
          /\ Contains(doc, InvitationLine)
    /\ Last(doc) = "BiasShield Decision System"

Complete(op, doc) ==
    CASE op = "explain_bias" -> CompleteBiasReport(doc)
      [] op = "remediation_strategy" -> CompleteRemediationStrategy(doc)
      [] op = "explain_loan" -> CompleteLoanExplanation(doc)

\* an answer is a complete document, or an error without explanation text
CompleteOrError(c) ==
    \/ /\ response[c].status = 200
       /\ response[c].has_explanation
       /\ Complete(request[c].op, response[c].explanation)
    \/ /\ response[c].status \in {422, 500}
       /\ ~response[c].has_explanation
       /\ response[c].explanation = <<>>

IsFairnessOp(c) == request[c].op \in {"explain_bias", "remediation_strategy"}

MissingAttribute(fd) == \E i \in 1..4 : AttributeKeys[i] \notin DOMAIN fd

MalformedRates(fd) ==
    \E a \in DOMAIN fd : \E j \in 1..Len(fd[a].approval_rates) : ~fd[a].approval_rates[j].numeric

EmptyRates(fd) == \E a \in DOMAIN fd : fd[a].approval_rates = <<>>

\* C10 as stated: every answer is a complete document or an error without
\* explanation text, and a FairnessReport that lacks an attribute, or has an
\* empty or a malformed approval_rates mapping, is answered with an error by
\* explain-bias and by remediation-strategy.
C10_Original ==
    \A c \in DOMAIN request :
        response[c] # NoResponse =>
            /\ CompleteOrError(c)
            /\ IsFairnessOp(c) =>
                  LET fd == request[c].fairness_data
                  IN  (MissingAttribute(fd) \/ MalformedRates(fd) \/ EmptyRates(fd))
                          => response[c].status # 200

\* C10 as amended: every answer is a complete document or an error without
\* explanation text; a FairnessReport that lacks an attribute or has a
\* malformed approval_rates mapping is answered with an error by explain-bias
\* and by remediation-strategy; one with an empty approval_rates mapping is
\* answered with an error by explain-bias, and with the complete document
\* by remediation-strategy when nothing else is wrong with it.
C10_CompleteOrError ==
    \A c \in DOMAIN request :
        response[c] # NoResponse =>
            /\ CompleteOrError(c)
            /\ IsFairnessOp(c) =>
                  LET fd == request[c].fairness_data
                  IN  /\ (MissingAttribute(fd) \/ MalformedRates(fd)) => response[c].status # 200
                      /\ (request[c].op = "explain_bias" /\ EmptyRates(fd))
                            => response[c].status # 200
                      /\ ( /\ request[c].op = "remediation_strategy"
                           /\ ~MissingAttribute(fd)
                           /\ ~MalformedRates(fd) )
                            => response[c].status = 200

\* a bias report requested for well-formed metrics whose gender mapping is
\* empty while race, ranked first, has rates: the error comes after part of
\* the report was built, and the answer is an error without text
C10_Witness ==
    \E c \in DOMAIN request :
        /\ request[c].op = "explain_bias"
        /\ LET fd == request[c].fairness_data
           IN  /\ ~MissingAttribute(fd)
               /\ ~MalformedRates(fd)
               /\ fd.gender.approval_rates = <<>>
               /\ \A a \in AttributeKeySet \ {"gender"} : fd[a].approval_rates # <<>>
               /\ Abs(fd.race.approval_disparity) > Abs(fd.gender.approval_disparity)
        /\ response[c].status = 500
        /\ ~response[c].has_explanation
        /\ response[c].explanation = <<>>

----------------------------------------------------------------------------
(* C11 *)

----------------------------------------------------------------------------
(* C12 *)

\* what the endpoint answers the request r when nothing else is running
Alone(r) ==
    CASE r.op = "explain_loan" ->
            IF ValidApplication(r.application)
                THEN explain_loan(r.application, r.prediction) ELSE ValidationError
      [] r.op = "explain_bias" ->
            IF ValidFairness(r.fairness_data)
                THEN explain_bias(r.fairness_data) ELSE ValidationError
      [] r.op = "remediation_strategy" ->
            IF ValidFairness(r.fairness_data)
                THEN remediation_strategy(r.fairness_data) ELSE ValidationError

\* what the generator of the request r leaves in the handler's local
GeneratorResult(r) ==
    CASE r.op = "explain_loan" -> generate_loan_explanation(r.application, r.prediction)
      [] r.op = "explain_bias" -> generate_bias_explanation(r.fairness_data)
      [] r.op = "remediation_strategy" -> generate_remediation_strategy(r.fairness_data)

\* C12: with two invocations interleaved in every order, every answer is the
\* answer the same request gets when run alone, and no invocation's locals
\* are touched by the other: an invocation that has not called its generator
\* has empty locals, one that has called it holds its own request's result.
C12_InterleavingFree ==
    \A c \in DOMAIN request :
        /\ response[c] # NoResponse => response[c] = Alone(request[c])
        /\ frame[c].pc = "idle" => frame[c] = NoFrame
        /\ frame[c].pc = "called" => frame[c].result = GeneratorResult(request[c])

\* c1 has called its generator and not yet returned, while c2, a different
\* request to another function, ran from call to answer.
C12_Witness ==
    /\ DOMAIN request = {"c1", "c2"}
    /\ request["c1"].op = "explain_bias"
    /\ request["c2"].op = "remediation_strategy"
    /\ frame["c1"].pc = "called"
    /\ ~ frame["c1"].result.raised
    /\ response["c1"] = NoResponse
    /\ frame["c2"].pc = "done"
    /\ response["c2"].status = 200
    /\ response["c2"].explanation # frame["c1"].result.message
----------------------------------------------------------------------------
(* C13 *)

\* the text of a loan-decision-pdf request and the paragraphs of its answer
TextOf(c) ==
    IF "explanation" \in DOMAIN request[c].body
        THEN request[c].body.explanation ELSE << >>

PdfAnswered(c) == request[c].op = "loan_decision_pdf" /\ response[c] # NoResponse

\* the text without its asterisks
Stripped(text) == SelectSeq(text, LAMBDA ch : ch # "*")

\* A line of t is named by the position of the newline before it (0 for the
\* first line); it ends before the next newline, or with the text.
LineStarts(t) == {0} \cup {i \in 1..Len(t) : t[i] = "\n"}

LineEnd(t, b) ==
    CHOOSE e \in (b + 1)..(Len(t) + 1) :
        /\ e = Len(t) + 1 \/ t[e] = "\n"
        /\ \A j \in (b + 1)..(e - 1) : t[j] # "\n"

LineAt(t, b) == SubSeq(t, b + 1, LineEnd(t, b) - 1)

OnlyWhitespace(line) == \A i \in 1..Len(line) : line[i] \in {" ", "\t", "\r", "\f"}

\* a non-blank line that is the first line or follows a blank line
OpensParagraph(t, b) ==
    /\ ~OnlyWhitespace(LineAt(t, b))
    /\ b = 0 \/ \E a \in LineStarts(t) : LineEnd(t, a) = b /\ OnlyWhitespace(LineAt(t, a))

\* a non-blank line that is the last line or is followed by a blank line
ClosesParagraph(t, b) ==
    /\ ~OnlyWhitespace(LineAt(t, b))
    /\ LineEnd(t, b) = Len(t) + 1 \/ OnlyWhitespace(LineAt(t, LineEnd(t, b)))

\* the k-th line that opens a paragraph, and the line that closes it
Opening(t, k) ==
    CHOOSE b \in LineStarts(t) :
        /\ OpensParagraph(t, b)
        /\ Cardinality({a \in LineStarts(t) : OpensParagraph(t, a) /\ a <= b}) = k

Closing(t, b) ==
    CHOOSE e \in LineStarts(t) :
        /\ e >= b
        /\ ClosesParagraph(t, e)
        /\ \A a \in LineStarts(t) : (b <= a /\ a < e) => ~ClosesParagraph(t, a)

\* the lines from b to e with a single space in place of each newline
Spaced(t, b, e) ==
    LET run == SubSeq(t, b + 1, LineEnd(t, e) - 1)
    IN  [i \in 1..Len(run) |-> IF run[i] = "\n" THEN " " ELSE run[i]]

\* C13: the paragraphs of the report carry no asterisk, none is empty or
\* blank, and they are, in order, the runs of consecutive non-blank lines of
\* the text without its asterisks, the lines of a run joined by one space.
C13_Paragraphs ==
    \A c \in DOMAIN request : PdfAnswered(c) =>
        LET t == Stripped(TextOf(c))
            paragraphs == response[c].paragraphs
        IN  /\ response[c].status = 200
            /\ Len(paragraphs) =
                    Cardinality({b \in LineStarts(t) : OpensParagraph(t, b)})
            /\ \A k \in 1..Len(paragraphs) :
                    /\ paragraphs[k] = Spaced(t, Opening(t, k), Closing(t, Opening(t, k)))
                    /\ ~OnlyWhitespace(paragraphs[k])
                    /\ \A i \in 1..Len(paragraphs[k]) : paragraphs[k][i] # "*"

\* "*b*", "a", "", " ", "a": asterisks removed, two lines joined, two blank
\* lines in a row between the paragraphs
C13_Witness ==
    /\ PdfAnswered("c1")
    /\ TextOf("c1") = << "*", "b", "*", "\n", "a", "\n", "\n", " ", "\n", "a" >>
    /\ response["c1"].paragraphs = << << "b", " ", "a" >>, << "a" >> >>

\* an empty text, and a text of blank lines only, give no paragraph at all
C13_WitnessBlank ==
    /\ PdfAnswered("c1")
    /\ TextOf("c1") = << "\n", " ", "\n" >>
    /\ response["c1"].paragraphs = << >>
----------------------------------------------------------------------------
(* C14 *)

\* the mapping approval_rates of the i-th attribute of a report
RatesAt(fd, i) == fd[AttributeKeys[i]].approval_rates

\* the k-th group has the first largest / the first smallest rate of rates
FirstHighest(rates, k) ==
    /\ \A j \in 1..Len(rates) : rates[j].rate <= rates[k].rate
    /\ \A j \in 1..(k - 1) : rates[j].rate # rates[k].rate

FirstLowest(rates, k) ==
    /\ \A j \in 1..Len(rates) : rates[j].rate >= rates[k].rate
    /\ \A j \in 1..(k - 1) : rates[j].rate # rates[k].rate

\* C14: in every bias report, the second line of an attribute's subsection
\* names a group whose rate is at least every rate of the attribute, the
\* third a group whose rate is at most every rate, and each names the first
\* such group of the mapping; when all rates are equal both name the first
\* group.
C14_FirstExtremes ==
    \A c \in DOMAIN request :
        Answered(c, "explain_bias") =>
            \A i \in 1..4 :
                LET rates == RatesAt(request[c].fairness_data, i)
                    lines == SubsectionOf(Doc(c), i)
                IN  /\ \E k \in 1..Len(rates) :
                          /\ FirstHighest(rates, k)
                          /\ lines[2] = "- Highest approval rate: " \o rates[k].group
                                            \o " (" \o Fmt1(rates[k].rate * 100) \o "%)"
                    /\ \E k \in 1..Len(rates) :
                          /\ FirstLowest(rates, k)
                          /\ lines[3] = "- Lowest approval rate: " \o rates[k].group
                                            \o " (" \o Fmt1(rates[k].rate * 100) \o "%)"
                    /\ (\A j \in 1..Len(rates) : rates[j].rate = rates[1].rate) =>
                          /\ lines[2] = "- Highest approval rate: " \o rates[1].group
                                            \o " (" \o Fmt1(rates[1].rate * 100) \o "%)"
                          /\ lines[3] = "- Lowest approval rate: " \o rates[1].group
                                            \o " (" \o Fmt1(rates[1].rate * 100) \o "%)"

\* a report where the two genders share one rate, both lines naming the
\* first, and the two races differ, the second being the highest
C14_Witness ==
    \E c \in DOMAIN request :
        /\ Answered(c, "explain_bias")
        /\ RatesAt(request[c].fairness_data, 1) = << Item("Male", 600), Item("Female", 600) >>
        /\ RatesAt(request[c].fairness_data, 2) = << Item("White", 600), Item("Black", 700) >>
        /\ SubsectionOf(Doc(c), 1)[2] = "- Highest approval rate: Male (60.0%)"
        /\ SubsectionOf(Doc(c), 1)[3] = "- Lowest approval rate: Male (60.0%)"
        /\ SubsectionOf(Doc(c), 2)[2] = "- Highest approval rate: Black (70.0%)"
        /\ SubsectionOf(Doc(c), 2)[3] = "- Lowest approval rate: White (60.0%)"
----------------------------------------------------------------------------
(* C15 *)

VizAnswered(c) == request[c].op = "get_visualization" /\ response[c] # NoResponse

\* C15: a viz_type outside viz_map is answered 404 with the detail
\* "Visualization <viz_type> not found", a viz_type of viz_map with the
\* placeholder message.
C15_NotFoundOrPlaceholder ==
    \A c \in DOMAIN request : VizAnswered(c) =>
        LET viz_type == request[c].viz_type
        IN  IF viz_type \in viz_map
                THEN response[c] = [status |-> 200,
                        message |-> "Visualization " \o viz_type \o " would be returned here"]
                ELSE /\ response[c].status = 404
                     /\ response[c].detail = "Visualization " \o viz_type \o " not found"

\* what the handler does instead: the 404 never leaves it
C15_UnknownIsServerError ==
    \A c \in DOMAIN request :
        (VizAnswered(c) /\ request[c].viz_type \notin viz_map) =>
            /\ response[c].status = 500
            /\ response[c].detail # "Visualization " \o request[c].viz_type \o " not found"

----------------------------------------------------------------------------
(* C16 *)

PredictAnswered(c) == request[c].op = "predict" /\ response[c].status = 200

\* C16: predict answers approved exactly when credit_score >= 600, income >=
\* 50000 and loan_amount <= 3 x income; the probability is 0.8 when approved
\* and 0.2 when not, so approved holds exactly when it is above 0.5; and the
\* explanation is the one six-factor mapping whatever the application.
C16_PredictRule ==
    \A c \in DOMAIN request : PredictAnswered(c) =>
        LET application == request[c].application
            rule == /\ application.credit_score >= 600
                    /\ application.income >= 50000 * Scale
                    /\ application.loan_amount <= 3 * application.income
        IN  /\ response[c].approved <=> rule
            /\ response[c].approval_probability = (IF rule THEN 800 ELSE 200)
            /\ response[c].approved <=> (2 * response[c].approval_probability > Scale)
            /\ Len(response[c].explanation) = 6
            /\ response[c].explanation =
                    << Factor(FactorKeys[1], 400), Factor(FactorKeys[2], 300),
                       Factor(FactorKeys[3], 200), Factor(FactorKeys[4], 50),
                       Factor(FactorKeys[5], 30), Factor(FactorKeys[6], 20) >>

\* an application at the three boundaries at once is approved
C16_Witness ==
    /\ PredictAnswered("c1")
    /\ request["c1"].application.credit_score = 600
    /\ request["c1"].application.income = 50000 * Scale
    /\ request["c1"].application.loan_amount = 150000 * Scale
    /\ request["c1"].application.gender = "Female"
    /\ response["c1"].approved
    /\ response["c1"].approval_probability = 800
====
